---- MODULE Spec2Model ----
(***************************************************************************)
(* Model of src/sales_data_analysis.py: the SalesDataAnalyzer object (df,   *)
(* cleaned_df, analysis_results), its operations load_and_clean_data,       *)
(* analyze_data, generate_word_report and send_email_with_report, the      *)
(* entry point main(), and the file system / SMTP connection they act on.   *)
(*                                                                          *)
(* Encoding of pandas values                                                *)
(*   numeric cell   <<>> is NaN (missing), <<v>> is the number v            *)
(*   text cell      a sequence of one-character strings; <<>> is NaN        *)
(*                  (read_csv turns an empty field into NaN)                *)
(*   date cell      [kind, day]: "str" a well-formed date string, "sci" a   *)
(*                  string in scientific notation, "bad" any other string,  *)
(*                  "nan" a blank field, "ts" a Timestamp, "nat" NaT.       *)
(*                  day counts days from Monday 2024-12-30.                 *)
(*   money          integers in thousandths of the currency unit            *)
(*   path, address  a sequence of one-character strings; <<>> is no value   *)
(*                                                                          *)
(* csv is the content of the input file, csv_file_path its path,            *)
(* docx_file_path the path the last report was saved to, main the record of *)
(* one run of the entry point main().                                       *)
(***************************************************************************)
EXTENDS Integers, Sequences, FiniteSets, TLC

VARIABLES csv, df, cleaned_df, analysis_results, report_written, outcome,
          smtp_log, smtp_conn, email_result,
          csv_file_path, docx_file_path, main

vars == <<csv, df, cleaned_df, analysis_results, report_written, outcome,
          smtp_log, smtp_conn, email_result,
          csv_file_path, docx_file_path, main>>

data_vars == <<csv, df, cleaned_df, analysis_results, report_written,
               csv_file_path, docx_file_path>>

smtp_vars == <<smtp_log, smtp_conn, email_result>>

-----------------------------------------------------------------------------
(* Cells *)

NaN == <<>>

Num(v) == <<v>>

IsNa(c) == c = <<>>

Val(c) == c[1]

Range(s) == {s[i] : i \in 1..Len(s)}

Abs(x) == IF x < 0 THEN -x ELSE x

\* Series.sum(): NaN cells are skipped, the sum of nothing is 0.
RECURSIVE SumCells(_)
SumCells(cells) ==
    IF cells = <<>> THEN 0
    ELSE (IF IsNa(Head(cells)) THEN 0 ELSE Val(Head(cells))) + SumCells(Tail(cells))

\* The number of non-missing cells (the 'count' aggregate, and mean's divisor).
RECURSIVE CountCells(_)
CountCells(cells) ==
    IF cells = <<>> THEN 0
    ELSE (IF IsNa(Head(cells)) THEN 0 ELSE 1) + CountCells(Tail(cells))

\* A sequence written as a function expression, evaluated once: the same
\* value (TLC re-evaluates a function expression at every application).
Materialize(s) == SubSeq(s, 1, Len(s))

Column(t, f) == Materialize([i \in 1..Len(t) |-> t[i][f]])

\* Python's round() of the quotient n / d (n >= 0, d > 0): to the nearest
\* integer, a tie going to the even neighbour.
RoundDiv(n, d) ==
    LET q == n \div d
        r == n % d
    IN  IF 2 * r < d THEN q
        ELSE IF 2 * r > d THEN q + 1
        ELSE IF q % 2 = 0 THEN q ELSE q + 1

\* DataFrame.round(2) on a money amount: to the nearest hundredth (10 thousandths).
Round2(m) == 10 * RoundDiv(m, 10)

-----------------------------------------------------------------------------
(* Text: str.title() *)

IsLetter(c) == c \in {"a", "b", "y", "A", "B", "Y"}

Upper(c) == CASE c = "a" -> "A" [] c = "b" -> "B" [] c = "y" -> "Y" [] OTHER -> c

Lower(c) == CASE c = "A" -> "a" [] c = "B" -> "b" [] c = "Y" -> "y" [] OTHER -> c

\* str.title(): a letter that follows a letter is lowercased, any other
\* letter is uppercased; NaN stays NaN.
Title(s) ==
    Materialize([i \in 1..Len(s) |->
        IF i > 1 /\ IsLetter(s[i - 1]) THEN Lower(s[i]) ELSE Upper(s[i])])

\* Code-point order of the characters and of the strings built from them.
Alphabet ==
    <<" ", "0", "1", "2", "3", "4", "5", "6", "7", "8", "9",
      "A", "B", "P", "U", "a", "b", "k", "n", "o", "w">>

CharRank(c) == CHOOSE i \in 1..Len(Alphabet) : Alphabet[i] = c

RECURSIVE TextLess(_, _)
TextLess(s, t) ==
    IF t = <<>> THEN FALSE
    ELSE IF s = <<>> THEN TRUE
    ELSE IF Head(s) = Head(t) THEN TextLess(Tail(s), Tail(t))
    ELSE CharRank(Head(s)) < CharRank(Head(t))

-----------------------------------------------------------------------------
(* Tables: a DataFrame is the sequence of its rows, each row a record that   *)
(* carries its index label idx (read_csv numbers the rows, filtering keeps   *)
(* the labels).  An attribute that may be None is [isNone, rows].            *)

None == [isNone |-> TRUE, rows |-> <<>>]

Frame(t) == [isNone |-> FALSE, rows |-> t]

\* The members of a set of integers in ascending order.
RECURSIVE Ascending(_)
Ascending(S) ==
    IF S = {} THEN <<>>
    ELSE LET least == CHOOSE x \in S : \A y \in S : x <= y
         IN  <<least>> \o Ascending(S \ {least})

-----------------------------------------------------------------------------
(* load_and_clean_data, rule by rule *)

\* The placeholder product identifier of rule 4.
InvalidProductID == <<"P", "0", "0", "0", "0">>

\* Rule 1: Date.str.contains('E\\+', na=False).
InvalidDate(c) == c.kind = "sci"

\* Rule 1: the literal '2025-09-22' (a Monday, 266 days after 2024-12-30).
FallbackDate == [kind |-> "str", day |-> 266]

FixDates(t) ==
    Materialize([i \in 1..Len(t) |->
        IF InvalidDate(t[i].Date) THEN [t[i] EXCEPT !.Date = FallbackDate] ELSE t[i]])

\* Rule 2: pd.to_datetime raises on a string that is no date.
Parseable(t) == \A i \in 1..Len(t) : t[i].Date.kind # "bad"

ToDatetimeCell(c) ==
    CASE c.kind = "str" -> [kind |-> "ts", day |-> c.day]
      [] c.kind = "nan" -> [kind |-> "nat", day |-> 0]
      [] OTHER -> c

ToDatetime(t) ==
    Materialize([i \in 1..Len(t) |-> [t[i] EXCEPT !.Date = ToDatetimeCell(@)]])

\* A column read from a file in which every field of it is blank is a float
\* column, and its .str accessor raises AttributeError.
DateStrAccessorFails(t) == Len(t) > 0 /\ \A i \in 1..Len(t) : t[i].Date.kind = "nan"

StrAccessorFails(t, f) == Len(t) > 0 /\ \A i \in 1..Len(t) : IsNa(t[i][f])

\* Rule 3: str.title() on one column.
TitleColumn(t, f) == Materialize([i \in 1..Len(t) |-> [t[i] EXCEPT ![f] = Title(@)]])

\* Rule 4: rows whose ProductID is the placeholder are removed.
KeepAllProducts(t) == t

DropInvalidProducts(t) ==
    LET Valid(r) == r.ProductID # InvalidProductID
    IN  SelectSeq(t, Valid)

\* Rule 5, one pass of the loop body for the row at position i: the mean of
\* the quantities present in the table as it is now, over the rows of the
\* same product, rounded, when there is one.
ImputeAllProducts(t, i) ==
    LET Peer(r) == ~IsNa(r.Quantity)
        peers == SelectSeq(t, Peer)
    IN  IF peers = <<>> THEN t
        ELSE [t EXCEPT ![i].Quantity =
                 Num(RoundDiv(SumCells(Column(peers, "Quantity")), Len(peers)))]

ImputeOne(t, i) ==
    LET Peer(r) == r.ProductID = t[i].ProductID /\ ~IsNa(r.Quantity)
        peers == SelectSeq(t, Peer)
    IN  IF peers = <<>> THEN t
        ELSE [t EXCEPT ![i].Quantity =
                 Num(RoundDiv(SumCells(Column(peers, "Quantity")), Len(peers)))]

RECURSIVE ImputeLoop(_, _)
ImputeLoop(t, todo) ==
    IF todo = <<>> THEN t ELSE ImputeLoop(ImputeOne(t, Head(todo)), Tail(todo))

\* Rule 5: the loop runs over the rows whose Quantity is missing on entry.
ImputeQuantity(t) ==
    ImputeLoop(t, Ascending({i \in 1..Len(t) : IsNa(t[i].Quantity)}))

\* Rule 6: Quantity * UnitPrice; NaN when either is NaN.
Mul(q, p) == IF IsNa(q) \/ IsNa(p) THEN NaN ELSE Num(Val(q) * Val(p))

KeepTotal(t) == t

RecomputeTotal(t) ==
    Materialize([i \in 1..Len(t) |->
        [t[i] EXCEPT !.TotalPrice = Mul(t[i].Quantity, t[i].UnitPrice)]])

\* Rule 7: a missing or empty Salesperson becomes 'Unknown'.
Unknown == <<"U", "n", "k", "n", "o", "w", "n">>

FillSalesperson(t) ==
    Materialize([i \in 1..Len(t) |->
        IF IsNa(t[i].Salesperson) THEN [t[i] EXCEPT !.Salesperson = Unknown] ELSE t[i]])

\* The whole method on the table read from the file: the value left in
\* cleaned_df and whether the method raised.  cleaned_df is assigned (a copy
\* of df) before the first rule runs and is updated rule by rule, so a raise
\* leaves the table as the rules before it made it.
LoadResult(raw) ==
    LET t1 == FixDates(raw)
        t2 == ToDatetime(t1)
        t3 == TitleColumn(t2, "Category")
        t4 == TitleColumn(t3, "ProductName")
        t5 == TitleColumn(t4, "Salesperson")
        t6 == DropInvalidProducts(t5)
        t7 == ImputeQuantity(t6)
        t8 == RecomputeTotal(t7)
        t9 == FillSalesperson(t8)
    IN  IF DateStrAccessorFails(raw) THEN [raised |-> TRUE, rows |-> raw]
        ELSE IF ~Parseable(t1) THEN [raised |-> TRUE, rows |-> t1]
        ELSE IF StrAccessorFails(t2, "Category") THEN [raised |-> TRUE, rows |-> t2]
        ELSE IF StrAccessorFails(t3, "ProductName") THEN [raised |-> TRUE, rows |-> t3]
        ELSE IF StrAccessorFails(t4, "Salesperson") THEN [raised |-> TRUE, rows |-> t4]
        ELSE [raised |-> FALSE, rows |-> t9]

-----------------------------------------------------------------------------
(* analyze_data *)

\* The length head(10) cuts the product table to.
TopN == 10

\* The keys of a set in ascending order (groupby sorts its group keys).
RECURSIVE SortTexts(_)
SortTexts(keys) ==
    IF keys = {} THEN <<>>
    ELSE LET least == CHOOSE k \in keys : \A o \in keys \ {k} : TextLess(k, o)
         IN  <<least>> \o SortTexts(keys \ {least})

ProductKeyLess(a, b) == TextLess(a[1], b[1]) \/ (a[1] = b[1] /\ TextLess(a[2], b[2]))

RECURSIVE SortProductKeys(_)
SortProductKeys(keys) ==
    IF keys = {} THEN <<>>
    ELSE LET least == CHOOSE k \in keys : \A o \in keys \ {k} : ProductKeyLess(k, o)
         IN  <<least>> \o SortProductKeys(keys \ {least})

\* The group keys of a key column (one cell per row): the keys present; a
\* missing key is no group key (groupby's dropna default).
KeysOf(keys) == {Val(keys[i]) : i \in {j \in 1..Len(keys) : ~IsNa(keys[j])}}

\* The rows of t at the labels S, in table order.
RowsAt(t, S) ==
    LET at == Ascending(S)
    IN  Materialize([n \in 1..Len(at) |-> t[at[n]]])

\* groupby(key).agg({'TotalPrice': ['sum', 'mean', 'count'], 'Quantity': 'sum'})
\* .round(2): keys is the key column of t, order the keys present in
\* ascending order; one row per key, and a row of t whose key is missing
\* belongs to no group.
GroupBy(t, keys, order) ==
    LET Agg(k) ==
            LET g == RowsAt(t, {i \in 1..Len(t) : keys[i] = Num(k)})
                total == Column(g, "TotalPrice")
            IN  [key |-> k,
                 sum |-> Round2(SumCells(total)),
                 mean |-> IF CountCells(total) = 0 THEN NaN
                          ELSE Num(10 * RoundDiv(SumCells(total), 10 * CountCells(total))),
                 count |-> CountCells(total),
                 qty |-> SumCells(Column(g, "Quantity"))]
    IN  Materialize([i \in 1..Len(order) |-> Agg(order[i])])

RemoveAt(s, i) == SubSeq(s, 1, i - 1) \o SubSeq(s, i + 1, Len(s))

SetMin(S) == CHOOSE x \in S : \A y \in S : x <= y

SetMax(S) == CHOOSE x \in S : \A y \in S : x >= y

\* sort_values('총매출', ascending=False).  The default kind is 'quicksort',
\* which pandas documents as not stable: rows of equal revenue come out in
\* the order the build's sort leaves them.  stable = TRUE is the order a
\* stable sort gives (ties in grouping order), FALSE the order with every
\* run of ties reversed.
RECURSIVE SortAscending(_, _)
SortAscending(tab, stable) ==
    IF tab = <<>> THEN <<>>
    ELSE LET least == SetMin({tab[i].sum : i \in 1..Len(tab)})
             ties == {i \in 1..Len(tab) : tab[i].sum = least}
             pick == IF stable THEN SetMin(ties) ELSE SetMax(ties)
         IN  <<tab[pick]>> \o SortAscending(RemoveAt(tab, pick), stable)

RECURSIVE SortDescending(_, _)
SortDescending(tab, stable) ==
    IF tab = <<>> THEN <<>>
    ELSE LET best == SetMax({tab[i].sum : i \in 1..Len(tab)})
             ties == {i \in 1..Len(tab) : tab[i].sum = best}
             pick == IF stable THEN SetMin(ties) ELSE SetMax(ties)
         IN  <<tab[pick]>> \o SortDescending(RemoveAt(tab, pick), stable)

\* head(n)
Head_(s, n) == SubSeq(s, 1, IF Len(s) < n THEN Len(s) ELSE n)

\* The key columns of the groupings.
TextKeys(t, f) ==
    Materialize([i \in 1..Len(t) |-> IF IsNa(t[i][f]) THEN NaN ELSE Num(t[i][f])])

ProductKeys(t) ==
    Materialize([i \in 1..Len(t) |->
        IF IsNa(t[i].ProductID) \/ IsNa(t[i].ProductName) THEN NaN
        ELSE Num(<<t[i].ProductID, t[i].ProductName>>)])

\* Date.dt.isocalendar().week: the ISO week number alone, without its year.
\* Day 0 is Monday of ISO week 1 of 2025; 2025 has 52 ISO weeks and 2026 has
\* 53, so the days modelled (0 .. 734) end on Sunday 2027-01-03.
IsoWeek(day) ==
    LET w == day \div 7
    IN  IF w < 52 THEN w + 1 ELSE (w - 52) + 1

\* Whether the Date column holds Timestamps (to_datetime has run on it).
DatesParsed(t) == \A i \in 1..Len(t) : t[i].Date.kind \in {"ts", "nat"}

HasDate(r) == r.Date.kind \notin {"nan", "nat"}

\* Series.min() / max() of the Date column: missing dates are skipped, NaT
\* when none is left.  (Of a column of unparsed strings the model keeps the
\* cell with the least / greatest day; the order of strings that are no
\* dates is not modelled.)
DateMin(t) ==
    LET S == {i \in 1..Len(t) : HasDate(t[i])}
    IN  IF S = {} THEN [kind |-> "nat", day |-> 0]
        ELSE t[CHOOSE i \in S : \A j \in S : t[i].Date.day < t[j].Date.day
                                   \/ (t[i].Date.day = t[j].Date.day /\ i <= j)].Date

DateMax(t) ==
    LET S == {i \in 1..Len(t) : HasDate(t[i])}
    IN  IF S = {} THEN [kind |-> "nat", day |-> 0]
        ELSE t[CHOOSE i \in S : \A j \in S : t[i].Date.day > t[j].Date.day
                                   \/ (t[i].Date.day = t[j].Date.day /\ i <= j)].Date

BasicStats(t) ==
    LET total == Column(t, "TotalPrice")
    IN  [total_sales |-> SumCells(total),
         total_quantity |-> SumCells(Column(t, "Quantity")),
         avg_order_value |-> IF CountCells(total) = 0 THEN NaN
                             ELSE <<SumCells(total), CountCells(total)>>,
         total_orders |-> Len(t),
         date_range |-> [start |-> DateMin(t), end |-> DateMax(t)]]

DateKeys(t) ==
    Materialize([i \in 1..Len(t) |-> IF HasDate(t[i]) THEN Num(t[i].Date.day) ELSE NaN])

\* A time-series table keeps the two sums only.
Trend(tab) ==
    Materialize([i \in 1..Len(tab) |->
        [key |-> tab[i].key, sum |-> tab[i].sum, qty |-> tab[i].qty]])

\* Line 158: the Week column added to cleaned_df.
WithWeek(t) ==
    Materialize([i \in 1..Len(t) |->
        [t[i] EXCEPT !.Week = IF t[i].Date.kind = "ts" THEN Num(IsoWeek(t[i].Date.day)) ELSE NaN]])

\* The entries analyze_data stores before it reaches the Week column.
ResultsBeforeWeek(t, stable) ==
    [basic_stats |-> BasicStats(t),
     category_analysis |->
         SortDescending(GroupBy(t, TextKeys(t, "Category"),
                                SortTexts(KeysOf(TextKeys(t, "Category")))), stable),
     region_analysis |->
         SortDescending(GroupBy(t, TextKeys(t, "Region"),
                                SortTexts(KeysOf(TextKeys(t, "Region")))), stable),
     salesperson_analysis |->
         SortDescending(GroupBy(t, TextKeys(t, "Salesperson"),
                                SortTexts(KeysOf(TextKeys(t, "Salesperson")))), stable),
     top_products |->
         Head_(SortDescending(GroupBy(t, ProductKeys(t),
                                      SortProductKeys(KeysOf(ProductKeys(t)))), stable),
               TopN)]

DailyTrends(t) == Trend(GroupBy(t, DateKeys(t), Ascending(KeysOf(DateKeys(t)))))

WeeklyAnalysis(t) ==
    Trend(GroupBy(t, Column(WithWeek(t), "Week"), Ascending(KeysOf(Column(WithWeek(t), "Week")))))

\* dict update: the keys of new replace or extend those of old.
Update(old, new) ==
    [k \in DOMAIN old \cup DOMAIN new |-> IF k \in DOMAIN new THEN new[k] ELSE old[k]]

\* What analyze_data leaves in analysis_results for the table t, and
\* whether it raised.  Every entry up to daily_trends is stored before
\* .dt.isocalendar() is reached, which raises AttributeError on a Date
\* column that holds no Timestamps.
AnalyzeResult(old, t, stable) ==
    LET early == Update(ResultsBeforeWeek(t, stable), [daily_trends |-> DailyTrends(t)])
    IN  IF ~DatesParsed(t)
        THEN [raised |-> TRUE, results |-> Update(old, early), rows |-> t]
        ELSE [raised |-> FALSE,
              results |-> Update(old, Update(early, [weekly_analysis |-> WeeklyAnalysis(t)])),
              rows |-> WithWeek(t)]

-----------------------------------------------------------------------------
(* generate_word_report *)

\* Whether the rendering code between the guard and doc.save() runs through:
\* strftime needs Timestamps for the period (NaT raises ValueError, a string
\* AttributeError) and the insight lines read row 0 of four tables
\* (IndexError on an empty one).
Renders(res) ==
    /\ {"basic_stats", "category_analysis", "region_analysis",
        "salesperson_analysis", "top_products"} \subseteq DOMAIN res
    /\ res.basic_stats.date_range.start.kind = "ts"
    /\ res.basic_stats.date_range.end.kind = "ts"
    /\ Len(res.category_analysis) > 0
    /\ Len(res.region_analysis) > 0
    /\ Len(res.salesperson_analysis) > 0
    /\ Len(res.top_products) > 0

\* str.replace(old, new): every occurrence of old, left to right and not
\* overlapping, becomes new; a string without old is returned as it is.
RECURSIVE Replace(_, _, _)
Replace(s, old, new) ==
    IF Len(s) < Len(old) THEN s
    ELSE IF SubSeq(s, 1, Len(old)) = old
         THEN new \o Replace(SubSeq(s, Len(old) + 1, Len(s)), old, new)
         ELSE <<Head(s)>> \o Replace(Tail(s), old, new)

CsvSuffix == <<".", "c", "s", "v">>

ReportSuffix ==
    <<"_", "s", "a", "l", "e", "s", "_", "r", "e", "p", "o", "r", "t", ".", "d", "o", "c", "x">>

\* Line 347: the path the report is saved to.
DocxPath(path) == Replace(path, CsvSuffix, ReportSuffix)

-----------------------------------------------------------------------------
(* send_email_with_report *)

\* The steps of one call, in program order.
EmailSteps ==
    <<"exists", "build", "attach", "connect", "starttls", "login", "sendmail", "quit">>

StepIndex(s) == CHOOSE i \in 1..Len(EmailSteps) : EmailSteps[i] = s

\* A call that goes on after a step has raised (a body without the try's
\* jump to the except clause).
EmailLogPastFailure(last, failed) ==
    Materialize([i \in 1..Len(EmailSteps) |->
        [step |-> EmailSteps[i], ok |-> ~(failed /\ i = last)]])

\* The steps one call has run, each with whether it completed: the steps up
\* to `last`, the last one failing when `failed`.
EmailLog(last, failed) ==
    Materialize([i \in 1..last |-> [step |-> EmailSteps[i], ok |-> ~(failed /\ i = last)]])

\* The call without its except clause: a missing file's FileNotFoundError
\* leaves the call (result "raised").
EmailRunUnguarded(exists, fail, dropped) ==
    LET last == IF ~exists THEN 1 ELSE IF fail = "none" THEN Len(EmailSteps) ELSE StepIndex(fail)
        failed == ~exists \/ fail # "none"
    IN  [log |-> EmailLog(last, failed),
         conn |-> IF last < StepIndex("connect") \/ (last = StepIndex("connect") /\ failed)
                  THEN "none"
                  ELSE IF ~failed \/ dropped THEN "closed" ELSE "open",
         result |-> IF ~exists THEN "raised" ELSE IF failed THEN "False" ELSE "True"]

\* One call.  exists: os.path.exists(docx_file_path); fail: the step that
\* raises ("none": no step does); dropped: whether the failing SMTP step is
\* one on which smtplib has closed the socket itself (a lost connection)
\* rather than a refusal by the server, which leaves it open.
\* The whole body is inside the try; the except clause closes nothing and
\* returns False.
EmailRun(exists, fail, dropped) ==
    LET last == IF ~exists THEN 1 ELSE IF fail = "none" THEN Len(EmailSteps) ELSE StepIndex(fail)
        failed == ~exists \/ fail # "none"
    IN  [log |-> EmailLog(last, failed),
         conn |-> IF last < StepIndex("connect") \/ (last = StepIndex("connect") /\ failed)
                  THEN "none"
                  ELSE IF ~failed \/ dropped THEN "closed" ELSE "open",
         result |-> IF failed THEN "False" ELSE "True"]

-----------------------------------------------------------------------------
(* main *)

\* str.lower()
LowerText(s) == Materialize([i \in 1..Len(s) |-> Lower(s[i])])

Whitespace == {" ", "\t", "\n"}

\* str.strip(): without its leading and trailing whitespace.
Strip(s) ==
    LET solid == {i \in 1..Len(s) : s[i] \notin Whitespace}
    IN  IF solid = {} THEN <<>>
        ELSE SubSeq(s, CHOOSE i \in solid : \A j \in solid : i <= j,
                       CHOOSE i \in solid : \A j \in solid : i >= j)

\* str.split(','): the pieces between the commas, empty ones included.
RECURSIVE Split(_)
Split(s) ==
    LET commas == {i \in 1..Len(s) : s[i] = ","}
    IN  IF commas = {} THEN <<s>>
        ELSE LET c == CHOOSE i \in commas : \A j \in commas : i <= j
             IN  <<SubSeq(s, 1, c - 1)>> \o Split(SubSeq(s, c + 1, Len(s)))

NonEmpty(s) == s # <<>>

\* Lines 566 / 608: [email.strip() for email in text.split(',') if email.strip()]
RecipientList(text) ==
    LET pieces == Split(text)
    IN  SelectSeq(Materialize([i \in 1..Len(pieces) |-> Strip(pieces[i])]), NonEmpty)

AsciiLetters ==
    {"a", "b", "c", "d", "e", "f", "g", "h", "i", "j", "k", "l", "m",
     "n", "o", "p", "q", "r", "s", "t", "u", "v", "w", "x", "y", "z",
     "A", "B", "C", "D", "E", "F", "G", "H", "I", "J", "K", "L", "M",
     "N", "O", "P", "Q", "R", "S", "T", "U", "V", "W", "X", "Y", "Z"}

AsciiDigits == {"0", "1", "2", "3", "4", "5", "6", "7", "8", "9"}

\* s is [a-zA-Z0-9._%+-]+@[a-zA-Z0-9.-]+\.[a-zA-Z]{2,} from end to end.
IsAddress(s) ==
    \E i, j \in 1..Len(s) :
        /\ 1 < i /\ i + 1 < j /\ j + 2 <= Len(s)
        /\ s[i] = "@" /\ s[j] = "."
        /\ \A k \in 1..(i - 1) : s[k] \in AsciiLetters \cup AsciiDigits \cup {".", "_", "%", "+", "-"}
        /\ \A k \in (i + 1)..(j - 1) : s[k] \in AsciiLetters \cup AsciiDigits \cup {".", "-"}
        /\ \A k \in (j + 1)..Len(s) : s[k] \in AsciiLetters

\* re.match(email_pattern, s) with the pattern of line 570; its $ also
\* matches before a newline that ends the string.
MatchesEmailPattern(s) ==
    \/ IsAddress(s)
    \/ Len(s) > 0 /\ s[Len(s)] = "\n" /\ IsAddress(SubSeq(s, 1, Len(s) - 1))

\* The answers that start the interactive delivery (line 600), of those
\* written in ASCII.
YesAnswers == {<<"y">>, <<"y", "e", "s">>}

\* The number of input() calls of the interactive delivery: the question and
\* the six settings.
PromptCount == 7

\* The part of main() after run_full_analysis returned (lines 555-638).
\* env: SENDER_EMAIL, EMAIL_PASSWORD and RECIPIENT_EMAIL (<<>>: unset or
\* empty); stdin: the lines standard input holds before its end (input()
\* raises EOFError at the end); fail, dropped: as for EmailRun.
\* send is whether send_email_with_report was called.
Delivery(env, stdin, fail, dropped) ==
    LET configured == env.sender # <<>> /\ env.password # <<>> /\ env.recipient # <<>>
        Sent(sender, recipients, prompts) ==
            LET r == EmailRun(TRUE, fail, dropped)
            IN  [exit |-> "normal",
                 status |-> IF r.result = "True" THEN "email_sent" ELSE "email_failed",
                 prompts |-> prompts, delivery |-> TRUE, sender_email |-> sender,
                 recipient_emails |-> recipients, send |-> TRUE, email |-> r]
        Stop(exit, status, prompts, delivery, sender, recipients) ==
            [exit |-> exit, status |-> status, prompts |-> prompts, delivery |-> delivery,
             sender_email |-> sender, recipient_emails |-> recipients, send |-> FALSE,
             email |-> [log |-> <<>>, conn |-> "none", result |-> "none"]]
    IN  IF configured
        THEN LET recipients == RecipientList(env.recipient)
             IN  IF ~MatchesEmailPattern(env.sender)
                 THEN Stop("normal", "invalid_sender", 0, TRUE, env.sender, recipients)
                 ELSE IF \E i \in 1..Len(recipients) : ~MatchesEmailPattern(recipients[i])
                 THEN Stop("normal", "invalid_recipient", 0, TRUE, env.sender, recipients)
                 ELSE Sent(env.sender, recipients, 0)
        ELSE IF stdin = <<>>
        THEN Stop("raised", "none", 1, FALSE, <<>>, <<>>)
        ELSE IF Strip(LowerText(stdin[1])) \notin YesAnswers
        THEN Stop("normal", "report_only", 1, FALSE, <<>>, <<>>)
        ELSE IF Len(stdin) < PromptCount
        THEN Stop("raised", "none", Len(stdin) + 1, FALSE, <<>>, <<>>)
        ELSE Sent(stdin[2], RecipientList(stdin[4]), PromptCount)

-----------------------------------------------------------------------------
(* State machine *)

\* pd.read_csv: the rows of the file, labelled 1, 2, ...  (The Week column
\* analyze_data adds later is carried as NaN until then.)
ReadCsv(file) ==
    Materialize([i \in 1..Len(file) |->
        [idx |-> i, Date |-> file[i].Date, ProductID |-> file[i].ProductID,
         ProductName |-> file[i].ProductName, Category |-> file[i].Category,
         Region |-> file[i].Region, Salesperson |-> file[i].Salesperson,
         Quantity |-> file[i].Quantity, UnitPrice |-> file[i].UnitPrice,
         TotalPrice |-> file[i].TotalPrice, Week |-> NaN]])

\* No path: nothing has been saved.
NoPath == <<>>

\* main()'s csv_file: "references/cicd_data.csv".
CsvFile ==
    <<"r", "e", "f", "e", "r", "e", "n", "c", "e", "s", "/",
      "c", "i", "c", "d", "_", "d", "a", "t", "a", ".", "c", "s", "v">>

\* main() has not run.
MainIdle ==
    [exit |-> "none", status |-> "none", prompts |-> 0, interactive |-> FALSE,
     configured |-> FALSE, delivery |-> FALSE, sender_email |-> <<>>,
     recipient_emails |-> <<>>]

\* SalesDataAnalyzer.__init__(path) on a file holding `file`.
InitAnalyzer(path, file) ==
    /\ csv = file
    /\ csv_file_path = path
    /\ docx_file_path = NoPath
    /\ main = MainIdle
    /\ df = None
    /\ cleaned_df = None
    /\ analysis_results = <<>>
    /\ report_written = FALSE
    /\ outcome = [op |-> "init", raised |-> FALSE]
    /\ smtp_log = <<>>
    /\ smtp_conn = "none"
    /\ email_result = "none"

\* The analyzer main() builds: SalesDataAnalyzer("references/cicd_data.csv").
InitWith(file) == InitAnalyzer(CsvFile, file)

\* The input file no longer holds a table: a report was saved over it
\* (read_csv then raises at line 39, before any assignment).
InputOverwritten == docx_file_path = csv_file_path

Load ==
    IF InputOverwritten
    THEN /\ outcome' = [op |-> "load", raised |-> TRUE]
         /\ UNCHANGED <<data_vars, smtp_vars, main>>
    ELSE LET r == LoadResult(ReadCsv(csv))
         IN  /\ df' = Frame(ReadCsv(csv))
             /\ cleaned_df' = Frame(r.rows)
             /\ outcome' = [op |-> "load", raised |-> r.raised]
             /\ UNCHANGED <<csv, analysis_results, report_written, smtp_vars,
                            csv_file_path, docx_file_path, main>>

Analyze ==
    \E stable \in BOOLEAN :
        IF cleaned_df.isNone
        THEN /\ outcome' = [op |-> "analyze", raised |-> TRUE]
             /\ UNCHANGED <<data_vars, smtp_vars, main>>
        ELSE LET r == AnalyzeResult(analysis_results, cleaned_df.rows, stable)
             IN  /\ analysis_results' = r.results
                 /\ cleaned_df' = Frame(r.rows)
                 /\ outcome' = [op |-> "analyze", raised |-> r.raised]
                 /\ UNCHANGED <<csv, df, report_written, smtp_vars,
                                csv_file_path, docx_file_path, main>>

GenerateReport ==
    IF DOMAIN analysis_results = {} \/ ~Renders(analysis_results)
    THEN /\ outcome' = [op |-> "report", raised |-> TRUE]
         /\ UNCHANGED <<data_vars, smtp_vars, main>>
    ELSE /\ report_written' = TRUE
         /\ docx_file_path' = DocxPath(csv_file_path)
         /\ outcome' = [op |-> "report", raised |-> FALSE]
         /\ UNCHANGED <<csv, df, cleaned_df, analysis_results, smtp_vars,
                        csv_file_path, main>>

\* docx_file_path is the report's path or the path of no file.
SendEmail ==
    \E path \in {"report", "missing"},
       fail \in {"none"} \cup (Range(EmailSteps) \ {"exists"}),
       dropped \in BOOLEAN :
        LET r == EmailRun(path = "report" /\ report_written, fail, dropped)
        IN  /\ smtp_log' = r.log
            /\ smtp_conn' = r.conn
            /\ email_result' = r.result
            /\ outcome' = [op |-> "email", raised |-> r.result = "raised"]
            /\ UNCHANGED <<data_vars, main>>

\* Addresses: "a@b.co", "ab.co" (no @), and a recipient list "a@b.co, ab.co".
GoodAddress == <<"a", "@", "b", ".", "c", "o">>

BadAddress == <<"a", "b", ".", "c", "o">>

\* The three environment variables, each unset or set.
Environments ==
    [sender : {<<>>, GoodAddress, BadAddress},
     password : {<<>>, <<"p">>},
     recipient : {<<>>, GoodAddress, GoodAddress \o <<",", " ">> \o BadAddress}]

\* Standard input: at its end, a refusal, a consent cut short, and the
\* consent " Y" followed by sender, password, recipients and three
\* defaults.
StandardInputs ==
    {<<>>, <<<<"n">>>>, <<<<" ", "Y">>, GoodAddress>>}
    \cup {<<<<" ", "Y">>, sender, <<"p">>, recipient, <<>>, <<>>, <<>>>> :
             sender \in {GoodAddress, BadAddress},
             recipient \in {GoodAddress, GoodAddress \o <<",", " ">> \o BadAddress}}

\* main(): run_full_analysis on a new analyzer (an exception of one of its
\* three calls ends main), then the delivery.  interactive is whether
\* standard input is a terminal; the code does not ask.
Main ==
    /\ outcome.op = "init"
    /\ LET l == LoadResult(ReadCsv(csv))
       IN  \E stable \in BOOLEAN, interactive \in BOOLEAN, env \in Environments :
             LET a == AnalyzeResult(analysis_results, l.rows, stable)
                 ok == ~l.raised /\ ~a.raised /\ Renders(a.results)
                 configured ==
                     env.sender # <<>> /\ env.password # <<>> /\ env.recipient # <<>>
             IN  /\ df' = Frame(ReadCsv(csv))
                 /\ cleaned_df' = IF l.raised THEN Frame(l.rows) ELSE Frame(a.rows)
                 /\ analysis_results' = IF l.raised THEN analysis_results ELSE a.results
                 /\ report_written' = ok
                 /\ UNCHANGED <<csv, csv_file_path>>
                 /\ IF ok
                    THEN \E stdin \in StandardInputs,
                            fail \in {"none"} \cup (Range(EmailSteps) \ {"exists"}),
                            dropped \in BOOLEAN :
                             LET d == Delivery(env, stdin, fail, dropped)
                             IN  /\ docx_file_path' = DocxPath(csv_file_path)
                                 /\ main' = [exit |-> d.exit, status |-> d.status,
                                             prompts |-> d.prompts,
                                             interactive |-> interactive,
                                             configured |-> configured,
                                             delivery |-> d.delivery,
                                             sender_email |-> d.sender_email,
                                             recipient_emails |-> d.recipient_emails]
                                 /\ smtp_log' = d.email.log
                                 /\ smtp_conn' = d.email.conn
                                 /\ email_result' = d.email.result
                                 /\ outcome' = [op |-> "main", raised |-> d.exit = "raised"]
                    ELSE /\ main' = [MainIdle EXCEPT !.exit = "raised",
                                                     !.interactive = interactive,
                                                     !.configured = configured]
                         /\ outcome' = [op |-> "main", raised |-> TRUE]
                         /\ UNCHANGED <<docx_file_path, smtp_vars>>

-----------------------------------------------------------------------------
(* Input files and specifications *)

MaxRows == 2

MaxCleanRows == 3

MaxImputeRows == 4

MaxAggRows == 2

MaxTopRows == 11

MaxPathRows == 2

MaxMainRows == 1

\* The files of 1 .. n data rows drawn from rows.  (A file with a header
\* and no data row is left out: pandas then has no values to infer the
\* column types from.)
Tables(rows, n) == UNION {[1..k -> rows] : k \in 1..n}

Txt(c) == <<c>>

Digit(d) == Alphabet[d + 2]

\* The identifier "P10dd" of product k (1 .. 99).
Pid(k) == <<"P", "1", "0", Digit(k \div 10), Digit(k % 10)>>

Day(d) == [kind |-> "str", day |-> d]

\* A well-formed row of product 1: one unit at 1.50, dated 2025-09-22.
PlainRow ==
    [Date |-> Day(266), ProductID |-> Pid(1), ProductName |-> <<"a", "b">>,
     Category |-> Txt("a"), Region |-> Txt("A"), Salesperson |-> Txt("b"),
     Quantity |-> Num(1), UnitPrice |-> Num(1500), TotalPrice |-> Num(1500)]

\* Every action on small files: dates that parse or not, placeholder rows.
Rows ==
    {[PlainRow EXCEPT !.Date = d, !.ProductID = p] :
        d \in {Day(266), [kind |-> "bad", day |-> 0]},
        p \in {InvalidProductID, Pid(1)}}

Init == \E file \in Tables(Rows, MaxRows) : InitWith(file)

Next == Load \/ Analyze \/ GenerateReport \/ SendEmail

Spec == Init /\ [][Next]_vars

\* The pipeline alone (the calls of run_full_analysis, in any order).
NextData == Load \/ Analyze \/ GenerateReport

\* Cleaning: placeholder rows, blank quantities, source totals that disagree
\* with Quantity * UnitPrice.
CleanRows ==
    {[PlainRow EXCEPT !.ProductID = p, !.Quantity = q, !.TotalPrice = Num(7000)] :
        p \in {InvalidProductID, Pid(1), Pid(2)},
        q \in {NaN, Num(2)}}

InitClean == \E file \in Tables(CleanRows, MaxCleanRows) : InitWith(file)

SpecClean == InitClean /\ [][NextData]_vars

\* Imputation (a property of load_and_clean_data alone): two products,
\* quantities blank or known.
ImputeRows ==
    {[PlainRow EXCEPT !.ProductID = p, !.Quantity = q] :
        p \in {Pid(1), Pid(2)},
        q \in {NaN, Num(2), Num(3), Num(5)}}

InitImpute == \E file \in Tables(ImputeRows, MaxImputeRows) : InitWith(file)

NextLoad == Load

SpecImpute == InitImpute /\ [][NextLoad]_vars

\* Aggregation: regions present or blank, dates on both sides of the turn
\* of the year (2025-09-22, 2025-12-22, 2026-01-05), placeholder rows.
AggRows ==
    {[PlainRow EXCEPT !.Date = d, !.ProductID = p, !.Region = r, !.Quantity = q] :
        d \in {Day(266), Day(357), Day(371)},
        p \in {InvalidProductID, Pid(1)},
        r \in {NaN, Txt("A"), Txt("B")},
        q \in {Num(1), Num(2)}}

InitAgg == \E file \in Tables(AggRows, MaxAggRows) : InitWith(file)

SpecAgg == InitAgg /\ [][NextData]_vars

\* The product table: up to MaxTopRows rows, row i selling product i, except
\* that row 2 may sell product 1 again and may spell its name differently;
\* the first two rows sell 1 to 3 units, the others 2.
TopRow(i, p, name, q) ==
    [PlainRow EXCEPT !.ProductID = IF i = 2 THEN p ELSE Pid(i),
                     !.ProductName = IF i = 2 THEN name ELSE <<"a", "b">>,
                     !.Quantity = IF i <= 2 THEN Num(q[i]) ELSE Num(2)]

InitTop ==
    \E n \in 1..MaxTopRows, p \in {Pid(1), Pid(2)},
       name \in {<<"a", "b">>, <<"A", "B">>, <<"b">>},
       q \in [1..2 -> 1..3] :
        InitWith([i \in 1..n |-> TopRow(i, p, name, q)])

SpecTop == InitTop /\ [][NextData]_vars

InitMain == \E file \in Tables(Rows, MaxMainRows) : InitWith(file)

NextMain == Main

SpecMain == InitMain /\ [][NextMain]_vars

\* Input paths in one directory: "d.csv", "d.txt", "d.CSV", "d",
\* "d.csv.bak", and main()'s path.
Paths ==
    {<<"d">> \o CsvSuffix, <<"d", ".", "t", "x", "t">>, <<"d", ".", "C", "S", "V">>,
     <<"d">>, <<"d">> \o CsvSuffix \o <<".", "b", "a", "k">>, CsvFile}

InitPath == \E path \in Paths, file \in Tables(Rows, MaxPathRows) : InitAnalyzer(path, file)

SpecPath == InitPath /\ [][NextData]_vars

-----------------------------------------------------------------------------
(* Properties *)

\* load_and_clean_data has run to completion on the file.
LoadCompleted == ~cleaned_df.isNone /\ ~LoadResult(ReadCsv(csv)).raised

Cleaned == cleaned_df.rows

\* C1: after load_and_clean_data completes, every row of the cleaned table
\* has TotalPrice = Quantity * UnitPrice of its cleaned Quantity, whatever
\* the file's TotalPrice was (a row whose Quantity is missing has the
\* missing product as its TotalPrice).
C1_TotalRecomputed ==
    LoadCompleted =>
        \A i \in 1..Len(Cleaned) :
            IF IsNa(Cleaned[i].Quantity)
            THEN IsNa(Cleaned[i].TotalPrice)
            ELSE Cleaned[i].TotalPrice =
                     Num(Val(Cleaned[i].Quantity) * Val(Cleaned[i].UnitPrice))

\* C1's case: a cleaned row with a known quantity whose TotalPrice in the
\* file was another value than the one it has now.
C1_Witness ==
    /\ LoadCompleted
    /\ \E i \in 1..Len(Cleaned) :
          /\ ~IsNa(Cleaned[i].Quantity)
          /\ csv[Cleaned[i].idx].TotalPrice # Cleaned[i].TotalPrice

\* The labels of the file's rows that are not placeholder rows.
ValidLabels == {i \in 1..Len(csv) : csv[i].ProductID # InvalidProductID}

\* C2: after load_and_clean_data completes the cleaned table holds no row
\* of product "P0000" and holds every other row of the file, in file order;
\* the total_orders analyze_data reports is the number of rows of the file
\* minus the number of its "P0000" rows.
C2_InvalidRowsRemoved ==
    LoadCompleted =>
        /\ \A i \in 1..Len(Cleaned) : Cleaned[i].ProductID # InvalidProductID
        /\ Column(Cleaned, "idx") = Ascending(ValidLabels)
        /\ "basic_stats" \in DOMAIN analysis_results =>
               analysis_results.basic_stats.total_orders
                   = Len(csv) - Cardinality((1..Len(csv)) \ ValidLabels)

\* C2's case: analyze_data has run on a file with a placeholder row and
\* another row.
C2_Witness ==
    /\ LoadCompleted
    /\ "basic_stats" \in DOMAIN analysis_results
    /\ ValidLabels # {}
    /\ ValidLabels # 1..Len(csv)

\* C3: after load_and_clean_data completes no row of the cleaned table has
\* a missing Quantity.
C3_NoMissingQuantity ==
    LoadCompleted => \A i \in 1..Len(Cleaned) : ~IsNa(Cleaned[i].Quantity)

\* The other rows of the file with row i's product and a known quantity.
InputPeers(i) ==
    {j \in 1..Len(csv) :
        j # i /\ csv[j].ProductID = csv[i].ProductID /\ ~IsNa(csv[j].Quantity)}

RECURSIVE InputQuantitySum(_)
InputQuantitySum(S) ==
    IF S = {} THEN 0
    ELSE LET j == CHOOSE x \in S : TRUE
         IN  Val(csv[j].Quantity) + InputQuantitySum(S \ {j})

\* q is sum / n rounded to the nearest integer, a tie to the even one.
IsRoundedMean(q, sum, n) ==
    /\ 2 * Abs(sum - q * n) <= n
    /\ 2 * Abs(sum - q * n) = n => q % 2 = 0

\* C4: a retained row whose Quantity is blank in the file, and whose
\* product has another row with a known quantity in the file, gets the
\* rounded mean of the file's quantities of those other rows, however many
\* rows of the product are blank.
C4_ImputedMean ==
    LoadCompleted =>
        \A k \in 1..Len(Cleaned) :
            LET i == Cleaned[k].idx
            IN  (IsNa(csv[i].Quantity) /\ InputPeers(i) # {}) =>
                    /\ ~IsNa(Cleaned[k].Quantity)
                    /\ IsRoundedMean(Val(Cleaned[k].Quantity),
                                     InputQuantitySum(InputPeers(i)),
                                     Cardinality(InputPeers(i)))

\* C4's case: two blank rows of one product whose known quantities have a
\* mean that is no integer, so the first imputed value changes the mean the
\* second one is computed from.
C4_Witness ==
    /\ LoadCompleted
    /\ \E i, j \in 1..Len(csv) :
          /\ i < j
          /\ csv[i].ProductID = csv[j].ProductID
          /\ IsNa(csv[i].Quantity) /\ IsNa(csv[j].Quantity)
          /\ Cardinality(InputPeers(i)) >= 2
          /\ InputQuantitySum(InputPeers(i)) % Cardinality(InputPeers(i)) # 0

\* analyze_data has stored every table (it ran to completion on the
\* cleaned table of the file).
Analyzed == LoadCompleted /\ "weekly_analysis" \in DOMAIN analysis_results

RECURSIVE SumOfSums(_)
SumOfSums(tab) == IF tab = <<>> THEN 0 ELSE Head(tab).sum + SumOfSums(Tail(tab))

\* C5: after analyze_data the revenue sums of the per-category table and
\* of the per-region table both add up to basic_stats' total_sales.
C5_SumProperty ==
    Analyzed =>
        /\ SumOfSums(analysis_results.category_analysis)
               = analysis_results.basic_stats.total_sales
        /\ SumOfSums(analysis_results.region_analysis)
               = analysis_results.basic_stats.total_sales

\* The product groups of the cleaned table: the (ProductID, ProductName)
\* pairs of its rows that have both.
ProductGroups ==
    {<<Cleaned[i].ProductID, Cleaned[i].ProductName>> :
        i \in {j \in 1..Len(Cleaned) :
                  ~IsNa(Cleaned[j].ProductID) /\ ~IsNa(Cleaned[j].ProductName)}}

ProductIDs == {Cleaned[i].ProductID : i \in 1..Len(Cleaned)}

\* The revenue of a product group, as the table shows it (2 decimals).
GroupRevenue(g) ==
    LET In(r) == r.ProductID = g[1] /\ r.ProductName = g[2]
    IN  Round2(SumCells(Column(SelectSeq(Cleaned, In), "TotalPrice")))

Min(a, b) == IF a < b THEN a ELSE b

TopProducts == analysis_results.top_products

\* Every row of the top-products table is a product group with its revenue,
\* no group twice, and every group left out has at most the revenue of
\* every row kept.
TopRowsAreBest ==
    /\ \A i \in 1..Len(TopProducts) :
          /\ TopProducts[i].key \in ProductGroups
          /\ TopProducts[i].sum = GroupRevenue(TopProducts[i].key)
    /\ \A i, j \in 1..Len(TopProducts) : i < j => TopProducts[i].key # TopProducts[j].key
    /\ \A g \in ProductGroups \ {TopProducts[i].key : i \in 1..Len(TopProducts)} :
          \A i \in 1..Len(TopProducts) : GroupRevenue(g) <= TopProducts[i].sum

\* C6 as stated: the top-products table has min(10, number of distinct
\* ProductID values of the cleaned table) rows, in descending order of
\* revenue, rows of equal revenue in grouping order (ascending key), and
\* every product left out has at most the revenue of every product kept.
C6_Original ==
    Analyzed =>
        /\ Len(TopProducts) = Min(TopN, Cardinality(ProductIDs))
        /\ \A i, j \in 1..Len(TopProducts) :
              i < j => \/ TopProducts[i].sum > TopProducts[j].sum
                       \/ /\ TopProducts[i].sum = TopProducts[j].sum
                          /\ ProductKeyLess(TopProducts[i].key, TopProducts[j].key)
        /\ TopRowsAreBest

\* C6 amended: the top-products table has min(10, number of distinct
\* (ProductID, title-cased ProductName) pairs of the cleaned table) rows,
\* one per pair, in non-increasing order of revenue (the order among rows of
\* equal revenue is not fixed), and every pair left out has at most the
\* revenue of every pair kept.
C6_TopProducts ==
    Analyzed =>
        /\ Len(TopProducts) = Min(TopN, Cardinality(ProductGroups))
        /\ \A i, j \in 1..Len(TopProducts) :
              i < j => TopProducts[i].sum >= TopProducts[j].sum
        /\ TopRowsAreBest

\* C6's case: more product groups than the table holds, one ProductID under
\* two names, rows of equal revenue among those kept and a group left out
\* with less revenue than the last one kept.
C6_Witness ==
    /\ Analyzed
    /\ Cardinality(ProductGroups) > TopN
    /\ Cardinality(ProductGroups) > Cardinality(ProductIDs)
    /\ \E i, j \in 1..Len(TopProducts) : i < j /\ TopProducts[i].sum = TopProducts[j].sum
    /\ \E g \in ProductGroups : GroupRevenue(g) < TopProducts[Len(TopProducts)].sum

\* The days of the cleaned rows counted in the weekly row of week w.
DaysOfWeek(w) ==
    {Cleaned[i].Date.day : i \in {j \in 1..Len(Cleaned) :
        Cleaned[j].Date.kind = "ts" /\ IsoWeek(Cleaned[j].Date.day) = w}}

\* C7: after analyze_data the daily table lists its days in ascending
\* order, and of any two rows of the weekly table the earlier row covers
\* transactions dated before those of the later row.
C7_Chronological ==
    Analyzed =>
        LET daily == analysis_results.daily_trends
            weekly == analysis_results.weekly_analysis
        IN  /\ \A i, j \in 1..Len(daily) : i < j => daily[i].key < daily[j].key
            /\ \A i, j \in 1..Len(weekly) :
                  i < j => \A a \in DaysOfWeek(weekly[i].key), b \in DaysOfWeek(weekly[j].key) :
                               a < b

\* C8: when the cleaned table has no rows, analyze_data fails, leaves
\* analysis_results empty, and no report is written.
C8_EmptyDatasetRejected ==
    (LoadCompleted /\ Len(Cleaned) = 0) =>
        /\ DOMAIN analysis_results = {}
        /\ ~report_written
        /\ outcome.op = "analyze" => outcome.raised

\* C9: when send_email_with_report has returned, the SMTP connection it
\* opened is closed.
C9_ConnectionClosed == outcome.op = "email" => smtp_conn # "open"

\* The steps of the last call that did not complete.
FailedSteps == {smtp_log[i].step : i \in {j \in 1..Len(smtp_log) : ~smtp_log[j].ok}}

\* C10: send_email_with_report returns True or False and never raises;
\* it returns False when any step failed (the document file missing
\* included), True only when sendmail completed, and runs each step at
\* most once.
C10_NeverRaises ==
    outcome.op = "email" =>
        /\ ~outcome.raised
        /\ email_result \in {"True", "False"}
        /\ FailedSteps # {} => email_result = "False"
        /\ email_result = "True" =>
               \E i \in 1..Len(smtp_log) : smtp_log[i] = [step |-> "sendmail", ok |-> TRUE]
        /\ \A i, j \in 1..Len(smtp_log) : i < j => smtp_log[i].step # smtp_log[j].step

\* C10's case: calls that failed at the existence check and at login, each
\* returning False after a single attempt.
C10_Witness ==
    /\ outcome.op = "email"
    /\ email_result = "False"
    /\ FailedSteps \in {{"exists"}, {"login"}}
    /\ Len(smtp_log) = StepIndex(CHOOSE s \in FailedSteps : TRUE)

\* The path without the extension of its last component.
Stem(path) ==
    LET dots == {i \in 1..Len(path) : path[i] = "." /\ \A j \in i..Len(path) : path[j] # "/"}
    IN  IF dots = {} THEN path
        ELSE SubSeq(path, 1, (CHOOSE i \in dots : \A j \in dots : j <= i) - 1)

\* C13: a report that has been written is at the input's path with its
\* suffix replaced by "_sales_report.docx", a path other than the input's
\* (the input file is not overwritten), the same at every run.
C13_OutputPath ==
    report_written =>
        /\ docx_file_path = Stem(csv_file_path) \o ReportSuffix
        /\ docx_file_path # csv_file_path

\* main() has ended after writing the report.
MainReported == main.exit # "none" /\ report_written

ConnectionOpened == \E i \in 1..Len(smtp_log) : smtp_log[i].step = "connect"

\* C11: when main() was given a sender or a recipient address that fails
\* the address pattern, from the environment or at the prompts, it ends
\* without an SMTP connection having been opened and with the report
\* written.
C11_InvalidAddressAborts ==
    (MainReported /\ main.delivery
       /\ (\/ ~MatchesEmailPattern(main.sender_email)
           \/ \E i \in 1..Len(main.recipient_emails) :
                 ~MatchesEmailPattern(main.recipient_emails[i]))) =>
        /\ ~ConnectionOpened
        /\ smtp_conn = "none"

\* C12: when standard input is no terminal and the environment holds no
\* complete delivery configuration, main() writes the report, calls no
\* email step, asks for no input and ends normally with the report-only
\* status line.
C12_ReportOnly ==
    (main.exit # "none" /\ ~main.interactive /\ ~main.configured
       /\ LoadCompleted /\ Analyzed /\ Renders(analysis_results)) =>
        /\ report_written
        /\ smtp_log = <<>>
        /\ main.prompts = 0
        /\ main.exit = "normal"
        /\ main.status = "report_only"

\* The step ran in the last call and completed.
Completed(step) == \E i \in 1..Len(smtp_log) : smtp_log[i] = [step |-> step, ok |-> TRUE]

\* C14: the steps of one send_email_with_report call run in program order
\* (existence check, connect, STARTTLS, login, sendmail, quit), each at
\* most once, and a step runs only when every earlier step completed: no
\* connection when the document is missing, no sendmail before STARTTLS
\* and login completed.
C14_StepOrder ==
    outcome.op = "email" =>
        /\ \A i, j \in 1..Len(smtp_log) :
              i < j => StepIndex(smtp_log[i].step) < StepIndex(smtp_log[j].step)
        /\ \A j \in 1..Len(smtp_log) :
              \A e \in Range(EmailSteps) :
                  StepIndex(e) < StepIndex(smtp_log[j].step) => Completed(e)
        /\ ~Completed("exists") => (~ConnectionOpened /\ smtp_conn = "none")

\* C14's case: a call whose STARTTLS failed after the connection was
\* opened; login and sendmail did not run.
C14_Witness ==
    /\ outcome.op = "email"
    /\ Completed("connect")
    /\ smtp_log[Len(smtp_log)] = [step |-> "starttls", ok |-> FALSE]

\* C15: analysis_results holds aggregates only of a table on which
\* load_and_clean_data ran to completion, an analyze_data call on any other
\* table raises, and a report is written only from the results of an
\* analyze_data call that ran to completion.
C15_OnlyFromCompleted ==
    /\ DOMAIN analysis_results # {} => LoadCompleted
    /\ (outcome.op = "analyze" /\ ~LoadCompleted) => outcome.raised
    /\ report_written => Analyzed

====
